---- MODULE Spec2Model ----
(***************************************************************************)
(* Model of main.py, the Streamlit epicentre simulator.                    *)
(*                                                                         *)
(* One execution of the script (a "run") is a sequence of steps through    *)
(* the sections of the file; pc is the section the run is about to         *)
(* execute.  st.session_state.stations and the widget values survive from  *)
(* one run to the next, every other name of the script is recomputed in    *)
(* every run.  An operator action (editing a widget, clicking the map,     *)
(* pressing the button) starts a new run.                                  *)
(*                                                                         *)
(* Python floats are modelled as binary floating-point numbers <<m, e>>    *)
(* (value m * 2^e) with a MantissaBits-bit significand and round-to-       *)
(* nearest-even after every operation, as IEEE-754 arithmetic does; the    *)
(* significand is narrower than a double's 53 bits so that the arithmetic  *)
(* fits the model checker's integers.  Exponent overflow and underflow are *)
(* not modelled.                                                           *)
(***************************************************************************)
EXTENDS Integers, Sequences, FiniteSets, TLC

\* ------------------------------------------------------------------ bounds
MantissaBits == 13      \* bits of the significand of a modelled float
NumClicks == 5          \* points of the map the operator can click
NumSpeeds == 2          \* values of a speed widget: 3.5, 6.0, ...
NumPs == 2              \* values typed into a PS widget: 5.0, -1.0, ...

\* ------------------------------------------------- floating-point numbers
RECURSIVE Pow2(_)
Pow2(n) == IF n = 0 THEN 1 ELSE 2 * Pow2(n - 1)

MantMin == Pow2(MantissaBits - 1)
MantMax == Pow2(MantissaBits)

Abs(n) == IF n < 0 THEN -n ELSE n

\* a/d * 2^e with a/d brought into [MantMin, MantMax)
RECURSIVE Scale(_, _, _)
Scale(a, d, e) ==
    IF a < d * MantMin THEN Scale(2 * a, d, e - 1)
    ELSE IF a >= d * MantMax THEN Scale(a, 2 * d, e + 1)
    ELSE <<a, d, e>>

\* the float nearest to n/d * 2^e (ties to even), d > 0
MkFloat(n, d, e) ==
    IF n = 0 THEN <<0, 0>>
    ELSE LET s == Scale(Abs(n), d, e)
             q == s[1] \div s[2]
             r == s[1] % s[2]
             up == (2 * r > s[2]) \/ (2 * r = s[2] /\ q % 2 = 1)
             q1 == IF up THEN q + 1 ELSE q
             m == IF q1 = MantMax THEN MantMin ELSE q1
             ex == IF q1 = MantMax THEN s[3] + 1 ELSE s[3]
         IN  <<IF n < 0 THEN -m ELSE m, ex>>

FromInt(n) == MkFloat(n, 1, 0)
FromRat(n, d) == MkFloat(n, d, 0)       \* a decimal literal n/d
FZero == <<0, 0>>

FNeg(x) == <<-x[1], x[2]>>
FMul(x, y) == MkFloat(x[1] * y[1], 1, x[2] + y[2])
\* y # 0
FDiv(x, y) == MkFloat(IF y[1] < 0 THEN -x[1] ELSE x[1], Abs(y[1]), x[2] - y[2])
FAdd(x, y) ==
    IF x[1] = 0 THEN y
    ELSE IF y[1] = 0 THEN x
    ELSE IF x[2] >= y[2]
         THEN IF x[2] - y[2] > MantissaBits + 1 THEN x
              ELSE MkFloat(x[1] * Pow2(x[2] - y[2]) + y[1], 1, y[2])
         ELSE IF y[2] - x[2] > MantissaBits + 1 THEN y
              ELSE MkFloat(y[1] * Pow2(y[2] - x[2]) + x[1], 1, x[2])
FSub(x, y) == FAdd(x, FNeg(y))
FLt(x, y) == FSub(x, y)[1] < 0

\* |x - y| is at most one unit in the last place of y
WithinUlp(x, y) ==
    LET d == FSub(x, y)
    IN  \/ d[1] = 0
        \/ /\ y[1] # 0
           /\ ~FLt(<<1, y[2]>>, <<Abs(d[1]), d[2]>>)

\* ------------------------------------------------------- operator inputs
\* four latitudes from 36.0 and two longitudes from 127.0, in steps of 0.5;
\* the fifth point has the latitude of the first and the other longitude
ClickPoints ==
    {[lat |-> FromRat(72 + (i % 4), 2),
      lng |-> FromRat(254 + (((i \div 4) + i) % 2), 2)] :
        i \in 0..(NumClicks - 1)}
SpeedVals == {FromRat(7 + 5 * i, 2) : i \in 0..(NumSpeeds - 1)}
PsVals == {FromInt(5 - 6 * i) : i \in 0..(NumPs - 1)}

\* absent values: None, a missing key, a name not bound yet in the run
NoClick == [none |-> TRUE]
NoResult == [none |-> TRUE]
NoInput == <<>>
NoDist == <<>>
NoK == <<>>
NoPoint == <<>>
\* the exception raised by a float division by zero
ZeroDivisionError == <<"ZeroDivisionError">>

VARIABLES
    stations,       \* st.session_state.stations
    vp, vs,         \* values of the two sidebar number inputs
    k_factor,       \* k_factor of the current run
    last_clicked,   \* map_data['last_clicked']
    input_ps,       \* value typed into widget input_ps_{i}, not yet read
    reset_clicked,  \* the reset button was pressed for this run
    pc,             \* section of the script the current run is at
    x0,             \* [avg_lon, avg_lat] of the current run
    result,         \* result of least_squares in the current run
    res,            \* <<res_lat, res_lon>> shown by the current run
    message         \* the outcome message shown by the current run

vars == <<stations, vp, vs, k_factor, last_clicked, input_ps, reset_clicked,
          pc, x0, result, res, message>>

\* ---------------------------------------------------------- pure helpers
\* a zero factor stands in for the undefined one
k_factor_or_zero(p, s) ==
    IF FSub(p, s) = FZero THEN FZero
    ELSE FDiv(FMul(p, s), FSub(p, s))

\* line 19; a float division by zero raises ZeroDivisionError
compute_k_factor(p, s) ==
    IF FSub(p, s) = FZero THEN ZeroDivisionError
    ELSE FDiv(FMul(p, s), FSub(p, s))

\* off by one: a fourth station is let in
can_add_fourth(n) == n <= 3

\* line 37, second conjunct
can_add(n) == n < 3

\* the same point, not the same latitude, counts as taken
point_taken(sts, new_lat, new_lon) ==
    \E i \in 1..Len(sts) : sts[i].lat = new_lat /\ sts[i].lon = new_lon

\* line 39
lat_taken(sts, new_lat, new_lon) ==
    \E i \in 1..Len(sts) : sts[i].lat = new_lat

\* the new station is put first
prepend_station(sts, new_lat, new_lon) ==
    <<[lat |-> new_lat, lon |-> new_lon, ps |-> FromInt(5),
       dist |-> NoDist]>> \o sts

\* line 40
append_station(sts, new_lat, new_lon) ==
    Append(sts, [lat |-> new_lat, lon |-> new_lon, ps |-> FromInt(5),
                 dist |-> NoDist])

\* the range is computed only for a station that has none yet
update_station_once(s, typed, k) ==
    IF s.dist = NoDist THEN [s EXCEPT !.ps = typed, !.dist = FMul(k, typed)]
    ELSE [s EXCEPT !.ps = typed]

\* lines 49-55, one iteration of the loop: typed is the widget's value
update_station(s, typed, k) ==
    [s EXCEPT !.ps = typed, !.dist = FMul(k, typed)]

\* the solver is let through with two stations
solver_gate_two(n) == n >= 2

\* line 111
solver_gate(n) == n = 3

\* line 122
station_xy(s) == <<FMul(s.lon, FromRat(444, 5)), FMul(s.lat, FromInt(111))>>

RECURSIVE SumField(_, _, _)
SumField(sts, f, n) ==
    IF n = 0 THEN FromInt(0) ELSE FAdd(SumField(sts, f, n - 1), sts[n][f])

\* lines 128-129
initial_guess(sts) ==
    <<FMul(FDiv(SumField(sts, "lon", Len(sts)), FromInt(3)), FromRat(444, 5)),
      FMul(FDiv(SumField(sts, "lat", Len(sts)), FromInt(3)), FromInt(111))>>

\* line 132: the optimiser ends with or without success at some point of
\* the plane; the points tried are the initial guess and the stations
least_squares(guess, sts) ==
    [success : BOOLEAN,
     x : {guess} \cup {station_xy(sts[i]) : i \in 1..Len(sts)}]

\* the success flag is not looked at
shows_estimate_always(r) == TRUE

\* line 134
shows_estimate(r) == r.success

\* the two axes are swapped
back_project_swapped(x) ==
    <<FDiv(x[1], FromInt(111)), FDiv(x[2], FromRat(444, 5))>>

\* line 135, as <<res_lat, res_lon>>
back_project(x) == <<FDiv(x[2], FromInt(111)), FDiv(x[1], FromRat(444, 5))>>

\* --------------------------------------------------------------- the run
NewRun ==
    /\ k_factor' = NoK
    /\ x0' = NoPoint
    /\ result' = NoResult
    /\ res' = NoPoint
    /\ message' = "none"
    /\ pc' = "speeds"

Init ==
    /\ stations = <<>>
    /\ vp = FromRat(12, 2)
    /\ vs = FromRat(7, 2)
    /\ k_factor = NoK
    /\ last_clicked = NoClick
    /\ input_ps = [i \in 1..3 |-> NoInput]
    /\ reset_clicked = FALSE
    /\ pc = "speeds"
    /\ x0 = NoPoint
    /\ result = NoResult
    /\ res = NoPoint
    /\ message = "none"

\* lines 17-19
Speeds ==
    /\ pc = "speeds"
    /\ LET k == compute_k_factor(vp, vs)
       IN  IF k = ZeroDivisionError
           THEN /\ message' = "ZeroDivisionError"
                /\ pc' = "idle"
                /\ reset_clicked' = FALSE
                /\ UNCHANGED k_factor
           ELSE /\ k_factor' = k
                /\ pc' = "map"
                /\ UNCHANGED <<message, reset_clicked>>
    /\ UNCHANGED <<stations, vp, vs, last_clicked, input_ps, x0, result, res>>

\* lines 37-41.  st_folium goes on returning the point of the last click
\* in later runs; a point this handler has looked at once is ignored by
\* every later run until the list is reset (its latitude is taken, or the
\* list is still full), so it is forgotten here, and the run that follows
\* a reset may see any earlier click again.
ClickHandler ==
    /\ pc = "map"
    /\ IF /\ last_clicked # NoClick
          /\ can_add(Len(stations))
          /\ ~lat_taken(stations, last_clicked.lat, last_clicked.lng)
       THEN /\ stations' = append_station(stations, last_clicked.lat,
                                          last_clicked.lng)
            /\ reset_clicked' = FALSE
            /\ NewRun
       ELSE /\ pc' = "inputs"
            /\ UNCHANGED <<stations, reset_clicked, k_factor, x0, result,
                           res, message>>
    /\ last_clicked' = NoClick
    /\ UNCHANGED <<vp, vs, input_ps>>

\* lines 48-56
widget_value(i) == IF input_ps[i] = NoInput THEN stations[i].ps ELSE input_ps[i]

StationInputs ==
    /\ pc = "inputs"
    /\ stations' = [i \in 1..Len(stations) |->
                       update_station(stations[i], widget_value(i), k_factor)]
    /\ input_ps' = [i \in 1..3 |-> NoInput]
    /\ pc' = "reset"
    /\ UNCHANGED <<vp, vs, k_factor, last_clicked, reset_clicked, x0, result,
                   res, message>>

\* lines 58-60
ResetButton ==
    /\ pc = "reset"
    /\ IF reset_clicked
       THEN /\ stations' = <<>>
            /\ last_clicked' \in {NoClick} \cup ClickPoints
            /\ reset_clicked' = FALSE
            /\ NewRun
       ELSE /\ pc' = "gate"
            /\ UNCHANGED <<stations, last_clicked, reset_clicked, k_factor,
                           x0, result, res, message>>
    /\ UNCHANGED <<vp, vs, input_ps>>

\* lines 111 and 164-165
Gate ==
    /\ pc = "gate"
    /\ IF solver_gate(Len(stations))
       THEN /\ pc' = "solve"
            /\ UNCHANGED message
       ELSE /\ message' = "need3"
            /\ pc' = "idle"
    /\ UNCHANGED <<stations, vp, vs, k_factor, last_clicked, input_ps,
                   reset_clicked, x0, result, res>>

\* lines 118-132
Solve ==
    /\ pc = "solve"
    /\ LET guess == initial_guess(stations)
       IN  /\ x0' = guess
           /\ result' \in least_squares(guess, stations)
    /\ pc' = "show"
    /\ UNCHANGED <<stations, vp, vs, k_factor, last_clicked, input_ps,
                   reset_clicked, res, message>>

\* lines 134-161
Show ==
    /\ pc = "show"
    /\ IF shows_estimate(result)
       THEN /\ res' = back_project(result.x)
            /\ message' = "estimate"
       ELSE /\ message' = "failure"
            /\ UNCHANGED res
    /\ pc' = "idle"
    /\ UNCHANGED <<stations, vp, vs, k_factor, last_clicked, input_ps,
                   reset_clicked, x0, result>>

\* ------------------------------------------------------ operator actions
\* the widgets below line 19 are on screen only if the last run got there
OnScreen == pc = "idle" /\ message # "ZeroDivisionError"

\* line 17
ChangeVp(v) ==
    /\ pc = "idle"
    /\ v # vp
    /\ vp' = v
    /\ NewRun
    /\ UNCHANGED <<stations, vs, last_clicked, input_ps, reset_clicked>>

\* line 18
ChangeVs(v) ==
    /\ pc = "idle"
    /\ v # vs
    /\ vs' = v
    /\ NewRun
    /\ UNCHANGED <<stations, vp, last_clicked, input_ps, reset_clicked>>

\* line 34
MapClick(point) ==
    /\ OnScreen
    /\ last_clicked' = point
    /\ NewRun
    /\ UNCHANGED <<stations, vp, vs, input_ps, reset_clicked>>

\* lines 49-53
EditPs(i, v) ==
    /\ OnScreen
    /\ i \in 1..Len(stations)
    /\ v # stations[i].ps
    /\ input_ps' = [input_ps EXCEPT ![i] = v]
    /\ NewRun
    /\ UNCHANGED <<stations, vp, vs, last_clicked, reset_clicked>>

\* line 58
PressReset ==
    /\ OnScreen
    /\ reset_clicked' = TRUE
    /\ NewRun
    /\ UNCHANGED <<stations, vp, vs, last_clicked, input_ps>>

Next ==
    \/ Speeds
    \/ ClickHandler
    \/ StationInputs
    \/ ResetButton
    \/ Gate
    \/ Solve
    \/ Show
    \/ \E v \in SpeedVals : ChangeVp(v)
    \/ \E v \in SpeedVals : ChangeVs(v)
    \/ \E point \in ClickPoints : MapClick(point)
    \/ \E i \in 1..3, v \in PsVals : EditPs(i, v)
    \/ PressReset

Spec == Init /\ [][Next]_vars

\* ------------------------------------------------------------ properties
Stations == 1..Len(stations)
Solved == result # NoResult

\* C1: with equal speeds the run fails at the conversion factor: no factor
\* is bound, the run ends with the exception before any station is touched,
\* and the solver is not run and shows nothing in that run.
C1_State ==
    vp = vs =>
        /\ k_factor = NoK
        /\ pc \in {"speeds", "idle"}
        /\ pc = "idle" => message = "ZeroDivisionError"
        /\ x0 = NoPoint /\ ~Solved /\ res = NoPoint
C1_EqualSpeedsFail ==
    [](C1_State) /\ [][vp = vs => stations' = stations]_vars
C1_Witness ==
    /\ vp = vs /\ pc = "idle" /\ message = "ZeroDivisionError"
    /\ Len(stations) = 3

\* C2: the solver runs only with exactly three stations, and every run
\* that gets to section 5 runs it if and only if there are three; with
\* fewer no solve is attempted and no estimate is shown.
C2_SolveIffThree ==
    /\ pc \in {"solve", "show"} => Len(stations) = 3
    /\ Solved => Len(stations) = 3
    /\ Len(stations) # 3 =>
           /\ ~Solved /\ res = NoPoint /\ x0 = NoPoint
           /\ message \notin {"estimate", "failure"}
    /\ (pc = "idle" /\ message # "ZeroDivisionError") =>
           /\ Solved <=> Len(stations) = 3
           /\ message = "need3" <=> Len(stations) # 3
C2_Witness ==
    /\ pc = "idle" /\ Len(stations) = 3 /\ Solved
    /\ \E i \in Stations : stations[i].ps # FromInt(5)

\* C3: a solve without success ends the run with the failure message and
\* no estimated point; a point is shown only after a solve with success.
C3_FailureIsAnOutcome ==
    /\ res # NoPoint => (Solved /\ result.success /\ message = "estimate")
    /\ message = "estimate" => (Solved /\ result.success /\ res # NoPoint)
    /\ message = "failure" => (Solved /\ ~result.success /\ res = NoPoint)
    /\ (pc = "idle" /\ Solved) =>
           message = (IF result.success THEN "estimate" ELSE "failure")
C3_Witness ==
    pc = "idle" /\ Solved /\ ~result.success /\ message = "failure"

\* C4: when the solver reads the stations, every station has a range and
\* it is (vp * vs) / (vp - vs) times the station's measurement, for the
\* speeds and measurements of this run.
C4_RangeIsDerived ==
    pc \in {"solve", "show"} =>
        \A i \in Stations :
            /\ stations[i].dist # NoDist
            /\ stations[i].dist =
                   FMul(FDiv(FMul(vp, vs), FSub(vp, vs)), stations[i].ps)
C4_Witness ==
    /\ pc = "solve"
    /\ vp # FromInt(6)
    /\ \E i \in Stations : stations[i].ps # FromInt(5)

\* C5: with vp > vs > 0 every range passed to the solver is >= 0.
C5_RangeNonNegative ==
    (pc = "solve" /\ FLt(FZero, vs) /\ FLt(vs, vp)) =>
        \A i \in Stations : ~FLt(stations[i].dist, FZero)

\* C6 as stated: projecting to the plane and back returns the latitude
\* and longitude exactly, for the stations the solver has projected and for
\* a shown point that the solver found at a station.
C6_ExactRoundTrip ==
    /\ pc = "show" =>
           \A i \in Stations :
               back_project(station_xy(stations[i])) =
                   <<stations[i].lat, stations[i].lon>>
    /\ res # NoPoint =>
           \A i \in Stations :
               result.x = station_xy(stations[i]) =>
                   res = <<stations[i].lat, stations[i].lon>>

MeanLatLon ==
    <<FDiv(SumField(stations, "lat", Len(stations)), FromInt(3)),
      FDiv(SumField(stations, "lon", Len(stations)), FromInt(3))>>
Close(p, q) == WithinUlp(p[1], q[1]) /\ WithinUlp(p[2], q[2])

\* C6 amended: projecting to the plane and back returns the latitude and
\* longitude to within one unit in the last place, axis by axis: for the
\* stations the solver has projected, for its initial guess, and for the
\* point shown.
C6_RoundTripWithinRounding ==
    /\ pc = "show" =>
           /\ \A i \in Stations :
                  Close(back_project(station_xy(stations[i])),
                        <<stations[i].lat, stations[i].lon>>)
           /\ Close(back_project(x0), MeanLatLon)
    /\ res # NoPoint =>
           /\ \A i \in Stations :
                  result.x = station_xy(stations[i]) =>
                      Close(res, <<stations[i].lat, stations[i].lon>>)
           /\ result.x = x0 => Close(res, MeanLatLon)
C6_Witness ==
    /\ message = "estimate"
    /\ \E i \in Stations :
           /\ result.x = station_xy(stations[i])
           /\ res # <<stations[i].lat, stations[i].lon>>

\* C8: the station list never holds more than three stations, and the
\* click handler adds nothing while three exist.
C8_AtMostThree ==
    /\ [](Len(stations) <= 3)
    /\ [][(pc = "map" /\ Len(stations) = 3) => stations' = stations]_vars
C8_Witness ==
    /\ pc = "map" /\ Len(stations) = 3
    /\ last_clicked # NoClick
    /\ ~lat_taken(stations, last_clicked.lat, last_clicked.lng)

\* C9: until a reset a station keeps its position and its index, and a
\* solver run leaves the whole station list as it was.
C9_Step ==
    /\ \/ pc = "reset" /\ reset_clicked /\ stations' = <<>>
       \/ /\ Len(stations') >= Len(stations)
          /\ \A i \in Stations :
                 /\ stations'[i].lat = stations[i].lat
                 /\ stations'[i].lon = stations[i].lon
    /\ pc \in {"solve", "show"} => stations' = stations
C9_PositionsFixed == [][C9_Step]_vars
C9_Witness ==
    /\ pc = "idle" /\ Solved /\ Len(stations) = 3
    /\ vp # FromInt(6)
    /\ \E i \in Stations : stations[i].ps # FromInt(5)

\* C10: the latitudes of the stations are pairwise distinct; a click on a
\* latitude already taken is ignored whatever its longitude.
C10_Step ==
    (/\ pc = "map" /\ last_clicked # NoClick
     /\ \E i \in Stations : stations[i].lat = last_clicked.lat)
        => stations' = stations
C10_DistinctLatitudes ==
    /\ [](\A i, j \in Stations : stations[i].lat = stations[j].lat => i = j)
    /\ [][C10_Step]_vars
C10_Witness ==
    /\ pc = "map" /\ Len(stations) \in 1..2
    /\ last_clicked # NoClick
    /\ \E i \in Stations :
           /\ stations[i].lat = last_clicked.lat
           /\ stations[i].lon # last_clicked.lng
====
